---- MODULE Spec2Model ----
(***************************************************************************)
(* The database secret backend: the connection pool backend.dbs, guarded   *)
(* by backend.lock, with the operations DBConnection and ResetDB (Spec,    *)
(* FairSpec), and the lease configuration read by Lease (LeaseSpec).       *)
(* The okta credential backend: the handlers of the config path, one       *)
(* request at a time (OktaSpec) and two writers at once (OktaConcSpec).    *)
(* Every caller is a process; its position in the handler is pc[p], or     *)
(* wpc[p] for a writer of the okta config.                                 *)
(***************************************************************************)
EXTENDS Naturals, FiniteSets, Sequences, TLC

\* ------------------------------------------------------------- bounds
\* Calls of DBConnection/ResetDB started in one behaviour.
MaxCalls == 2

Procs == {"p1", "p2"}
Names == {"db1", "db2"}
\* The names whose dbs/<name> entry is written while the backend runs; the
\* other names were configured before it started.
Configurable == {"db1"}

\* ------------------------------------------------------------- values
Nil == "nil"
\* s.Get found nothing at the path: a nil entry.
NoEntry ==
  [present |-> FALSE, json_ok |-> FALSE, database_type |-> "", config_info |-> ""]
NoErr == "no error"
ErrStorage == "storage read error"
ErrNotConfigured == "configure the DB connection with dbs/<name> first"
ErrDecodeJSON == "entry does not decode"
ErrUnmarshal == "failure to unmarshal config data"
ErrNotRecognized == "database type not recognized"
ErrConnect == "connect failed"

\* The tags the switch knows, and one it does not.
RecognizedTypes == {"postgres", "mysql"}
UnrecognizedType == "oracle"
\* config_info: a payload that unmarshals into the type's config, and one that
\* does not.
ConfigInfos == {"wellformed", "junk"}
\* A stored entry whose bytes are not the JSON of a configDB.
Corrupt ==
  [present |-> TRUE, json_ok |-> FALSE, database_type |-> "", config_info |-> ""]
Entries ==
  {[present |-> TRUE, json_ok |-> TRUE, database_type |-> t, config_info |-> c] :
     t \in RecognizedTypes, c \in ConfigInfos}
    \cup {[present |-> TRUE, json_ok |-> TRUE, database_type |-> UnrecognizedType,
            config_info |-> "wellformed"]}
    \cup {Corrupt}

Preconfigured ==
  [present |-> TRUE, json_ok |-> TRUE, database_type |-> "postgres",
   config_info |-> "wellformed"]

VARIABLES
  storage,   \* logical.Storage at "dbs/"+name: an entry or NoEntry
  dbs,       \* b.dbs: a Go map, a function on the keys it holds
  lock,      \* b.lock: TRUE while the mutex is held
  pc,        \* each caller's position
  arg,       \* each caller's name parameter
  entry,     \* each caller's local variable entry
  err,       \* each caller's local variable err
  overlapped,\* a DBConnection started while another of the same name was in flight
  result,    \* what each caller's last call returned, until its next call
  gets,      \* s.Get calls per name since the name's last ResetDB
  decodes,   \* DecodeJSON calls per name since the name's last ResetDB
  opens,     \* Connect calls per name since the name's last ResetDB
  closeCalls,\* Close calls per name
  wasReset,  \* a ResetDB of the name has completed
  lastOp,    \* the last completed pool operation per name
  calls      \* calls started

poolVars == <<storage, dbs, lock, pc, arg, entry, err, overlapped, result, gets,
              decodes, opens, closeCalls, wasReset, lastOp, calls>>

\* The lease configuration of the database backend.
VARIABLES
  leaseStore,  \* logical.Storage at "config/lease": an entry or NoLease
  leaseResult, \* what the last Lease call returned
  leasePut     \* the last write request to config/lease and its outcome

leaseVars == <<leaseStore, leaseResult, leasePut>>

\* The config path of the okta credential backend.
VARIABLES
  oktaStore,   \* logical.Storage at "config": an entry or NoCfg
  oktaReq,     \* the request the dispatcher has handed to a handler
  oktaResp,    \* what the last handler returned
  wpc,         \* each concurrent writer's position
  wreq,        \* each concurrent writer's request
  wcfg,        \* each concurrent writer's local variable cfg
  wres,        \* how each concurrent writer's last request ended
  overlapW     \* the writers' latest two requests were in flight together

oktaVars == <<oktaStore, oktaReq, oktaResp, wpc, wreq, wcfg, wres, overlapW>>

vars == <<poolVars, leaseVars, oktaVars>>

\* ------------------------------------------------------------- lease values
ErrInvalidLeaseConfig == "InvalidLeaseConfig"
\* Durations a lease configuration is written with.
LeaseTTLs == {0, 50, 100}
\* s.Get found nothing at config/lease.
NoLease ==
  [present |-> FALSE, json_ok |-> FALSE, default_ttl |-> 0, max_ttl |-> 0]
\* A stored entry whose bytes are not the JSON of a configLease.
CorruptLease ==
  [present |-> TRUE, json_ok |-> FALSE, default_ttl |-> 0, max_ttl |-> 0]
LeaseEntry(d, m) ==
  [present |-> TRUE, json_ok |-> TRUE, default_ttl |-> d, max_ttl |-> m]
\* The nil *configLease; set tells it from a pointer to a zero-valued one.
NilLease == [set |-> FALSE, default_ttl |-> 0, max_ttl |-> 0]
NoLeaseResult == [op |-> "none", config |-> NilLease, err |-> NoErr]
NoLeasePut == [op |-> "none", default_ttl |-> 0, max_ttl |-> 0, err |-> NoErr]

LeaseStart ==
  /\ leaseStore = NoLease
  /\ leaseResult = NoLeaseResult
  /\ leasePut = NoLeasePut

\* reads and attempts count the s.Get and Connect calls of the caller's
\* current invocation.
NoResult ==
  [op |-> "none", handle |-> Nil, err |-> NoErr, connErr |-> NoErr,
   reads |-> 0, attempts |-> 0]

\* m[name] of a Go map: the zero value, nil, for a key it does not hold.
Lookup(m, name) == IF name \in DOMAIN m THEN m[name] ELSE Nil

\* The assignment written as a fresh map holding only the assigned key.
MapSet_FreshMap(m, name, v) ==
  [k \in {name} |-> v]

\* m[name] = v of a Go map.
MapSet(m, name, v) ==
  [k \in (DOMAIN m) \cup {name} |-> IF k = name THEN v ELSE m[k]]

\* ------------------------------------------------------------- okta values
\* time.Second, in the nanoseconds a time.Duration counts.
Second == 1000000000
Fields == {"organization", "token", "base_url", "ttl", "max_ttl"}
Orgs == {"orgA", "orgB"}
Tokens == {"t1", "t2"}
GoodURL == "https://okta.example"
\* A string url.Parse rejects (an invalid escape).
BadURL == "%zz"
\* ttl and max_ttl of a request, in seconds.
TTLSeconds == {1, 2}
ErrParseBaseURL == "Error parsing given base_url"
ErrEncode == "entry does not encode"
ErrPut == "storage write error"

\* &ConfigEntry{}.
ZeroCfg == [Org |-> "", Token |-> "", BaseURL |-> "", TTL |-> 0, MaxTTL |-> 0]
\* s.Get found nothing at config.
NoCfg == [present |-> FALSE, json_ok |-> FALSE, cfg |-> ZeroCfg]
\* A stored entry whose bytes are not the JSON of a ConfigEntry.
CorruptCfg == [present |-> TRUE, json_ok |-> FALSE, cfg |-> ZeroCfg]
\* logical.StorageEntryJSON("config", cfg): the entry DecodeJSON turns back
\* into cfg.
StorageEntryJSON(cfg) == [present |-> TRUE, json_ok |-> TRUE, cfg |-> cfg]

\* A field of framework.FieldData: ok tells whether the request carries it.
Unsupplied(zero) == [ok |-> FALSE, v |-> zero]
Supplied(v) == [ok |-> TRUE, v |-> v]
NoFields ==
  [organization |-> Unsupplied(""), token |-> Unsupplied(""),
   base_url |-> Unsupplied(""), ttl |-> Unsupplied(0), max_ttl |-> Unsupplied(0)]
NoReq == [kind |-> "none", op |-> "none", d |-> NoFields]
\* The requests a client can send to the config path.
FieldData ==
  [organization : {Unsupplied("")} \cup {Supplied(v) : v \in Orgs},
   token : {Unsupplied("")} \cup {Supplied(v) : v \in Tokens},
   base_url : {Unsupplied("")} \cup {Supplied(v) : v \in {"", GoodURL, BadURL}},
   ttl : {Unsupplied(0)} \cup {Supplied(v) : v \in TTLSeconds},
   max_ttl : {Unsupplied(0)} \cup {Supplied(v) : v \in TTLSeconds}]

NoData == [organization |-> "", base_url |-> "", ttl |-> 0, max_ttl |-> 0]
NoResp == [kind |-> "none", op |-> "none", nil |-> TRUE, errResp |-> "", err |-> NoErr, data |-> NoData]

\* What Config returns for no entry: nil, nil.
NilRead == [nil |-> TRUE, cfg |-> ZeroCfg, err |-> NoErr]

OktaStart ==
  /\ oktaStore = NoCfg
  /\ oktaReq = NoReq
  /\ oktaResp = NoResp
  /\ wpc = [p \in Procs |-> "idle"]
  /\ wreq = [p \in Procs |-> NoReq]
  /\ wcfg = [p \in Procs |-> NilRead]
  /\ wres = [p \in Procs |-> "none"]
  /\ overlapW = FALSE

PoolStart ==
  /\ storage = [n \in Names |-> IF n \in Configurable THEN NoEntry ELSE Preconfigured]
  /\ dbs = << >>
  /\ lock = FALSE
  /\ pc = [p \in Procs |-> "idle"]
  /\ arg = [p \in Procs |-> Nil]
  /\ entry = [p \in Procs |-> NoEntry]
  /\ err = [p \in Procs |-> NoErr]
  /\ overlapped = FALSE
  /\ result = [p \in Procs |-> NoResult]
  /\ gets = [n \in Names |-> 0]
  /\ decodes = [n \in Names |-> 0]
  /\ opens = [n \in Names |-> 0]
  /\ closeCalls = [n \in Names |-> 0]
  /\ wasReset = [n \in Names |-> FALSE]
  /\ lastOp = [n \in Names |-> "none"]
  /\ calls = 0

Init == PoolStart /\ LeaseStart /\ OktaStart

\* ------------------------------------------------------- the handlers
\* s.Get("dbs/"+name): the entry, no entry, or a read error.
StorageGet(s, name, fails) ==
  IF fails THEN [err |-> ErrStorage, entry |-> NoEntry]
  ELSE [err |-> NoErr, entry |-> s[name]]

\* AfterGet with a missing entry answered as Lease answers one: (nil, nil).
AfterGet_NilEntryNoError(got) ==
  IF got.err # NoErr THEN [return |-> TRUE, handle |-> Nil, err |-> got.err]
  ELSE IF got.entry = NoEntry
    THEN [return |-> TRUE, handle |-> Nil, err |-> NoErr]
  ELSE [return |-> FALSE, handle |-> Nil, err |-> NoErr]

\* The checks on what s.Get returned: return (nil, err), or go on.
AfterGet(got) ==
  IF got.err # NoErr THEN [return |-> TRUE, handle |-> Nil, err |-> got.err]
  ELSE IF got.entry = NoEntry
    THEN [return |-> TRUE, handle |-> Nil, err |-> ErrNotConfigured]
  ELSE [return |-> FALSE, handle |-> Nil, err |-> NoErr]

\* entry.DecodeJSON(&dbInfo) succeeds.
DecodeJSON(e) == e.json_ok

\* json.Unmarshal(dbInfo.ConfigInfo, &config) succeeds for the type's schema.
Unmarshal(type, info) == info = "wellformed"

\* DecodeConfig with the switch's default case missing: an unrecognized type
\* falls out of the switch to the final return.
DecodeConfig_NoDefault(e) ==
  IF ~e.json_ok
    THEN [return |-> TRUE, handle |-> Nil, err |-> ErrDecodeJSON]
  ELSE IF e.database_type \in RecognizedTypes /\ e.config_info = "junk"
    THEN [return |-> TRUE, handle |-> Nil, err |-> ErrUnmarshal]
  ELSE [return |-> FALSE, handle |-> Nil, err |-> NoErr]

\* DecodeJSON, then the switch on dbInfo.DatabaseType up to the Connect call:
\* return (nil, err), or go on to Connect.
DecodeConfig(e) ==
  IF ~DecodeJSON(e)
    THEN [return |-> TRUE, handle |-> Nil, err |-> ErrDecodeJSON]
  ELSE IF e.database_type \in RecognizedTypes
    THEN IF Unmarshal(e.database_type, e.config_info)
           THEN [return |-> FALSE, handle |-> Nil, err |-> NoErr]
           ELSE [return |-> TRUE, handle |-> Nil, err |-> ErrUnmarshal]
  ELSE [return |-> TRUE, handle |-> Nil, err |-> ErrNotRecognized]

\* What Connect(b.dbs[name], config) can return. It receives the map's value,
\* a pointer, by value: it cannot change what the map holds.
ConnectOutcomes == {NoErr, ErrConnect}

\* Lock that does not wait for the mutex.
LockAcquire_NoWait == lock' = TRUE

\* b.lock.Lock(): waits until the mutex is free.
LockAcquire ==
  /\ lock = FALSE
  /\ lock' = TRUE

\* The deferred b.lock.Unlock().
Unlock == lock' = FALSE

\* ReturnDB with the Unlock written before each return instead of deferred,
\* and forgotten on the error returns.
ReturnDB_NoUnlockOnError(p, handle, e, connErr) ==
  /\ lock' = (IF e = NoErr THEN FALSE ELSE lock)
  /\ pc' = [pc EXCEPT ![p] = "idle"]
  /\ result' = [result EXCEPT ![p] =
       [op |-> "DBConnection", handle |-> handle, err |-> e, connErr |-> connErr,
        reads |-> result[p].reads, attempts |-> result[p].attempts]]
  /\ entry' = [entry EXCEPT ![p] = NoEntry]
  /\ err' = [err EXCEPT ![p] = NoErr]
  /\ lastOp' = [lastOp EXCEPT ![arg[p]] =
       IF e = NoErr THEN "acquired" ELSE "failed"]

\* A return of DBConnection: the deferred Unlock runs, the caller has the
\* result. connErr is what the local err held from Connect, returned or not.
ReturnDB(p, handle, e, connErr) ==
  /\ Unlock
  /\ pc' = [pc EXCEPT ![p] = "idle"]
  /\ result' = [result EXCEPT ![p] =
       [op |-> "DBConnection", handle |-> handle, err |-> e, connErr |-> connErr,
        reads |-> result[p].reads, attempts |-> result[p].attempts]]
  /\ entry' = [entry EXCEPT ![p] = NoEntry]
  /\ err' = [err EXCEPT ![p] = NoErr]
  /\ lastOp' = [lastOp EXCEPT ![arg[p]] =
       IF e = NoErr THEN "acquired" ELSE "failed"]

InDBConnection(q, name) ==
  /\ pc[q] \in {"db_lock", "db_get", "db_check", "db_connect", "db_return"}
  /\ arg[q] = name

CallDBConnection(p, name) ==
  /\ pc[p] = "idle"
  /\ calls < MaxCalls
  /\ calls' = calls + 1
  /\ pc' = [pc EXCEPT ![p] = "db_lock"]
  /\ result' = [result EXCEPT ![p] = NoResult]
  /\ arg' = [arg EXCEPT ![p] = name]
  /\ overlapped' = (overlapped \/ \E q \in Procs \ {p} : InDBConnection(q, name))
  /\ UNCHANGED <<storage, dbs, lock, entry, err, gets, decodes, opens,
                 closeCalls, wasReset, lastOp>>

DBLock(p) ==
  /\ pc[p] = "db_lock"
  /\ LockAcquire
  /\ pc' = [pc EXCEPT ![p] = "db_get"]
  /\ UNCHANGED <<storage, dbs, arg, entry, err, overlapped, result, gets,
                 decodes, opens, closeCalls, wasReset, lastOp, calls>>

\* entry, err := s.Get("dbs/"+name)
DBGet(p) ==
  /\ pc[p] = "db_get"
  /\ \E fails \in BOOLEAN :
       LET got == StorageGet(storage, arg[p], fails)
       IN /\ entry' = [entry EXCEPT ![p] = got.entry]
          /\ err' = [err EXCEPT ![p] = got.err]
  /\ gets' = [gets EXCEPT ![arg[p]] = @ + 1]
  /\ result' = [result EXCEPT ![p].reads = @ + 1]
  /\ pc' = [pc EXCEPT ![p] = "db_check"]
  /\ UNCHANGED <<storage, dbs, lock, arg, overlapped, decodes, opens,
                 closeCalls, wasReset, lastOp, calls>>

\* The checks on entry and err, DecodeJSON and the switch, up to the Connect
\* call.
DBDecode(p) ==
  /\ pc[p] = "db_check"
  /\ LET a == AfterGet([err |-> err[p], entry |-> entry[p]])
         d == IF a.return THEN a ELSE DecodeConfig(entry[p])
     IN /\ decodes' = IF a.return THEN decodes
                      ELSE [decodes EXCEPT ![arg[p]] = @ + 1]
        /\ IF d.return
             THEN ReturnDB(p, d.handle, d.err, NoErr)
             ELSE /\ pc' = [pc EXCEPT ![p] = "db_connect"]
                  /\ UNCHANGED <<lock, entry, err, result, lastOp>>
  /\ UNCHANGED <<storage, dbs, arg, overlapped, gets, opens, closeCalls,
                 wasReset, calls>>

\* err = Connect(b.dbs[name], config)
DBConnect(p) ==
  /\ pc[p] = "db_connect"
  /\ \E e \in ConnectOutcomes : err' = [err EXCEPT ![p] = e]
  /\ opens' = [opens EXCEPT ![arg[p]] = @ + 1]
  /\ result' = [result EXCEPT ![p].attempts = @ + 1]
  /\ pc' = [pc EXCEPT ![p] = "db_return"]
  /\ UNCHANGED <<storage, dbs, lock, arg, entry, overlapped, gets,
                 decodes, closeCalls, wasReset, lastOp, calls>>

\* return b.dbs[name], nil
DBReturn(p) ==
  /\ pc[p] = "db_return"
  /\ ReturnDB(p, Lookup(dbs, arg[p]), NoErr, err[p])
  /\ UNCHANGED <<storage, dbs, arg, overlapped, gets, decodes, opens,
                 closeCalls, wasReset, calls>>

\* ResetDBBody without the nil check before Close.
ResetDBBody_CloseUnchecked(m, name) ==
  [dbs |-> MapSet(m, name, Nil), closes |-> 1]

\* The body of ResetDB on the map: Close if the value is not nil, then
\* b.dbs[name] = nil.
ResetDBBody(m, name) ==
  [dbs |-> MapSet(m, name, Nil),
   closes |-> IF Lookup(m, name) # Nil THEN 1 ELSE 0]

CallResetDB(p, name) ==
  /\ pc[p] = "idle"
  /\ calls < MaxCalls
  /\ calls' = calls + 1
  /\ pc' = [pc EXCEPT ![p] = "rs_lock"]
  /\ result' = [result EXCEPT ![p] = NoResult]
  /\ arg' = [arg EXCEPT ![p] = name]
  /\ UNCHANGED <<storage, dbs, lock, entry, err, overlapped, gets, decodes,
                 opens, closeCalls, wasReset, lastOp>>

RSLock(p) ==
  /\ pc[p] = "rs_lock"
  /\ LockAcquire
  /\ pc' = [pc EXCEPT ![p] = "rs_body"]
  /\ UNCHANGED <<storage, dbs, arg, entry, err, overlapped, result, gets,
                 decodes, opens, closeCalls, wasReset, lastOp, calls>>

RSBody(p) ==
  /\ pc[p] = "rs_body"
  /\ LET r == ResetDBBody(dbs, arg[p])
     IN /\ dbs' = r.dbs
        /\ closeCalls' = [closeCalls EXCEPT ![arg[p]] = @ + r.closes]
  /\ Unlock
  /\ pc' = [pc EXCEPT ![p] = "idle"]
  /\ result' = [result EXCEPT ![p] =
       [op |-> "ResetDB", handle |-> Nil, err |-> NoErr, connErr |-> NoErr,
        reads |-> 0, attempts |-> 0]]
  /\ gets' = [gets EXCEPT ![arg[p]] = 0]
  /\ decodes' = [decodes EXCEPT ![arg[p]] = 0]
  /\ opens' = [opens EXCEPT ![arg[p]] = 0]
  /\ wasReset' = [wasReset EXCEPT ![arg[p]] = TRUE]
  /\ lastOp' = [lastOp EXCEPT ![arg[p]] = "reset"]
  /\ UNCHANGED <<storage, arg, entry, err, overlapped, calls>>

\* An administrative write of dbs/<name>; it takes no pool lock.
ConfigureConnection(name, e) ==
  /\ storage[name] # e
  /\ storage' = [storage EXCEPT ![name] = e]
  /\ UNCHANGED <<dbs, lock, pc, arg, entry, err, overlapped, result, gets,
                 decodes, opens, closeCalls, wasReset, lastOp, calls>>

PoolNext ==
  \/ \E p \in Procs, n \in Names : CallDBConnection(p, n)
  \/ \E p \in Procs : DBLock(p)
  \/ \E p \in Procs : DBGet(p)
  \/ \E p \in Procs : DBDecode(p)
  \/ \E p \in Procs : DBConnect(p)
  \/ \E p \in Procs : DBReturn(p)
  \/ \E p \in Procs, n \in Names : CallResetDB(p, n)
  \/ \E p \in Procs : RSLock(p)
  \/ \E p \in Procs : RSBody(p)
  \/ \E n \in Configurable, e \in Entries : ConfigureConnection(n, e)

Next == PoolNext /\ UNCHANGED <<leaseVars, oktaVars>>

Spec == Init /\ [][Next]_vars

\* The scheduling the runtime gives: a goroutine that can take a step takes
\* it, a call that was made returns (Connect included), and a goroutine that
\* waits in Lock gets the mutex once it stays free.
Fairness ==
  \A p \in Procs :
    /\ WF_poolVars(DBLock(p)) /\ WF_poolVars(RSLock(p))
    /\ WF_poolVars(DBGet(p)) /\ WF_poolVars(DBDecode(p)) /\ WF_poolVars(DBConnect(p))
    /\ WF_poolVars(DBReturn(p)) /\ WF_poolVars(RSBody(p))

FairSpec == Spec /\ Fairness

\* ------------------------------------------------------------- types
TypeOK ==
  /\ storage \in [Names -> Entries \cup {NoEntry}]
  /\ DOMAIN dbs \subseteq Names
  /\ lock \in BOOLEAN
  /\ calls \in 0..MaxCalls

\* A caller is between Lock and the deferred Unlock.
InCS(p) == pc[p] \in {"db_get", "db_check", "db_connect", "db_return", "rs_body"}

Acquired(p) ==
  /\ pc[p] = "idle"
  /\ result[p].op = "DBConnection"
  /\ result[p].err = NoErr

\* ------------------------------------------------------------- lease
\* Lease with the Get error check missing: a failed read falls through to
\* the nil-entry return.
Lease_ReadErrorAsUnset(s, fails) ==
  IF fails \/ ~s.present THEN [op |-> "Lease", config |-> NilLease, err |-> NoErr]
  ELSE IF ~s.json_ok THEN [op |-> "Lease", config |-> NilLease, err |-> ErrDecodeJSON]
  ELSE [op |-> "Lease",
        config |-> [set |-> TRUE, default_ttl |-> s.default_ttl, max_ttl |-> s.max_ttl],
        err |-> NoErr]

\* backend.Lease: (nil, err) on a read error, (nil, nil) for no entry,
\* (nil, err) when the entry does not decode, else a pointer to the decoded
\* configLease.
Lease(s, fails) ==
  IF fails THEN [op |-> "Lease", config |-> NilLease, err |-> ErrStorage]
  ELSE IF ~s.present THEN [op |-> "Lease", config |-> NilLease, err |-> NoErr]
  ELSE IF ~s.json_ok THEN [op |-> "Lease", config |-> NilLease, err |-> ErrDecodeJSON]
  ELSE [op |-> "Lease",
        config |-> [set |-> TRUE, default_ttl |-> s.default_ttl, max_ttl |-> s.max_ttl],
        err |-> NoErr]

CallLease(fails) ==
  /\ leaseResult' = Lease(leaseStore, fails)
  /\ UNCHANGED <<leaseStore, leasePut, poolVars, oktaVars>>

\* The write of config/lease without the check of the two durations.
ConfigureLease_Unvalidated(d, m) ==
  /\ leasePut' = [op |-> "put", default_ttl |-> d, max_ttl |-> m, err |-> NoErr]
  /\ leaseStore' = LeaseEntry(d, m)
  /\ UNCHANGED <<leaseResult, poolVars, oktaVars>>

\* The write of config/lease: the ordering of the two durations is checked
\* before anything is persisted.
ConfigureLease(d, m) ==
  /\ IF m > 0 /\ d > m
       THEN /\ leasePut' = [op |-> "put", default_ttl |-> d, max_ttl |-> m,
                            err |-> ErrInvalidLeaseConfig]
            /\ leaseStore' = leaseStore
       ELSE /\ leasePut' = [op |-> "put", default_ttl |-> d, max_ttl |-> m,
                            err |-> NoErr]
            /\ leaseStore' = LeaseEntry(d, m)
  /\ UNCHANGED <<leaseResult, poolVars, oktaVars>>

\* The backend starts on storage that holds no lease entry, or one written
\* by something else that does not decode.
LeaseInit ==
  /\ PoolStart /\ OktaStart
  /\ leaseStore \in {NoLease, CorruptLease}
  /\ leaseResult = NoLeaseResult
  /\ leasePut = NoLeasePut

LeaseNext ==
  \/ \E fails \in BOOLEAN : CallLease(fails)
  \/ \E d \in LeaseTTLs, m \in LeaseTTLs : ConfigureLease(d, m)

LeaseSpec == LeaseInit /\ [][LeaseNext]_vars

\* ------------------------------------------------------------- okta config
\* backend.Config: (nil, err) on a read error, (nil, nil) for no entry,
\* (nil, err) when the entry does not decode, else the decoded ConfigEntry.
Config(s, fails) ==
  IF fails THEN [nil |-> TRUE, cfg |-> ZeroCfg, err |-> ErrStorage]
  ELSE IF ~s.present THEN [nil |-> TRUE, cfg |-> ZeroCfg, err |-> NoErr]
  ELSE IF ~s.json_ok THEN [nil |-> TRUE, cfg |-> ZeroCfg, err |-> ErrDecodeJSON]
  ELSE [nil |-> FALSE, cfg |-> s.cfg, err |-> NoErr]

\* pathConfigExistenceCheck with the comparison the wrong way round.
ExistenceCheck_Inverted(c) ==
  [exists |-> IF c.err # NoErr THEN FALSE ELSE c.nil, err |-> c.err]

\* pathConfigExistenceCheck on what Config returned.
ExistenceCheck(c) ==
  [exists |-> IF c.err # NoErr THEN FALSE ELSE ~c.nil, err |-> c.err]

\* The fields of pathConfig declare no Default: a field's default is the
\* zero value of its type.
SchemaDefault(k) == IF k \in {"ttl", "max_ttl"} THEN 0 ELSE ""
\* d.Get(k): the supplied value, or the schema default.
Get(d, k) == IF d[k].ok THEN d[k].v ELSE SchemaDefault(k)
\* time.Duration(n) * time.Second.
Seconds(n) == n * Second
\* url.Parse(u) returns no error.
ParseOK(u) == u # BadURL

\* The merge with the test of the operation left out: a field the request
\* does not carry always gets d.Get's value.
MergeField_AlwaysGet(ok, supplied, op, default, old) ==
  IF ok THEN supplied ELSE default

\* if ok { field = supplied } else if Create { field = d.Get(k) }.
MergeField(ok, supplied, op, default, old) ==
  IF ok THEN supplied
  ELSE IF op = "create" THEN default
  ELSE old

\* The assignments of pathConfigWrite to cfg. bad: url.Parse failed.
Merge(c, op, d) ==
  LET base == IF c.nil THEN ZeroCfg ELSE c.cfg
  IN [bad |-> d.base_url.ok /\ d.base_url.v # "" /\ ~ParseOK(d.base_url.v),
      cfg |->
        [Org |-> MergeField(d.organization.ok, d.organization.v, op,
                            Get(d, "organization"), base.Org),
         Token |-> MergeField(d.token.ok, d.token.v, op, Get(d, "token"), base.Token),
         BaseURL |->
           IF d.base_url.ok
             THEN IF d.base_url.v # "" THEN d.base_url.v ELSE base.BaseURL
             ELSE IF op = "create" THEN Get(d, "base_url") ELSE base.BaseURL,
         TTL |-> MergeField(d.ttl.ok, Seconds(d.ttl.v), op,
                            Seconds(Get(d, "ttl")), base.TTL),
         MaxTTL |-> MergeField(d.max_ttl.ok, Seconds(d.max_ttl.v), op,
                               Seconds(Get(d, "max_ttl")), base.MaxTTL)]]

WriteResp(op, errResp, e) ==
  [kind |-> "write", op |-> op, nil |-> (errResp = ""), errResp |-> errResp,
   err |-> e, data |-> NoData]

\* pathConfigWrite after Config, with the return after the url.Parse error
\* missing: the handler goes on to Put and reports the error afterwards.
WriteTail_NoReturnOnBadURL(s, c, op, d, encFails, putFails) ==
  LET m == Merge(c, op, d)
  IN IF encFails THEN [store |-> s, resp |-> WriteResp(op, "", ErrEncode)]
     ELSE IF putFails THEN [store |-> s, resp |-> WriteResp(op, "", ErrPut)]
     ELSE [store |-> StorageEntryJSON(m.cfg),
           resp |-> WriteResp(op, IF m.bad THEN ErrParseBaseURL ELSE "", NoErr)]

\* pathConfigWrite after Config: the merge, the error response for a
\* base_url that does not parse, StorageEntryJSON and Put.
WriteTail(s, c, op, d, encFails, putFails) ==
  LET m == Merge(c, op, d)
  IN IF m.bad THEN [store |-> s, resp |-> WriteResp(op, ErrParseBaseURL, NoErr)]
     ELSE IF encFails THEN [store |-> s, resp |-> WriteResp(op, "", ErrEncode)]
     ELSE IF putFails THEN [store |-> s, resp |-> WriteResp(op, "", ErrPut)]
     ELSE [store |-> StorageEntryJSON(m.cfg), resp |-> WriteResp(op, "", NoErr)]

\* pathConfigWrite: the storage it leaves and the response it returns.
PathConfigWrite(s, op, d, readFails, encFails, putFails) ==
  LET c == Config(s, readFails)
  IN IF c.err # NoErr THEN [store |-> s, resp |-> WriteResp(op, "", c.err)]
     ELSE WriteTail(s, c, op, d, encFails, putFails)

\* pathConfigRead with the token added to the response data.
PathConfigRead_WithToken(s, readFails) ==
  LET c == Config(s, readFails)
  IN IF c.err # NoErr \/ c.nil
       THEN [kind |-> "read", op |-> "read", nil |-> TRUE, errResp |-> "",
             err |-> c.err, data |-> NoData]
       ELSE [kind |-> "read", op |-> "read", nil |-> FALSE, errResp |-> "",
             err |-> NoErr,
             data |-> [organization |-> c.cfg.Org, token |-> c.cfg.Token,
                       base_url |-> c.cfg.BaseURL,
                       ttl |-> c.cfg.TTL, max_ttl |-> c.cfg.MaxTTL]]

\* pathConfigRead: (nil, err), (nil, nil) for no config, else the response
\* with the four data keys.
PathConfigRead(s, readFails) ==
  LET c == Config(s, readFails)
  IN IF c.err # NoErr \/ c.nil
       THEN [kind |-> "read", op |-> "read", nil |-> TRUE, errResp |-> "",
             err |-> c.err, data |-> NoData]
       ELSE [kind |-> "read", op |-> "read", nil |-> FALSE, errResp |-> "",
             err |-> NoErr,
             data |-> [organization |-> c.cfg.Org, base_url |-> c.cfg.BaseURL,
                       ttl |-> c.cfg.TTL, max_ttl |-> c.cfg.MaxTTL]]

\* The operations a write request can reach pathConfigWrite with. A request
\* is an Update only if the existence check found a config; it can be a
\* Create although a config is stored, when another write stored one after
\* the check (see WCheck and WPut).
WriteOps(s) ==
  LET e == ExistenceCheck(Config(s, FALSE))
  IN IF e.err # NoErr THEN {}
     ELSE IF e.exists THEN {"create", "update"}
     ELSE {"create"}

concVars == <<wpc, wreq, wcfg, wres, overlapW>>

\* The dispatcher hands a read request to pathConfigRead.
OktaDispatchRead ==
  /\ oktaReq = NoReq
  /\ oktaReq' = [kind |-> "read", op |-> "read", d |-> NoFields]
  /\ oktaResp' = NoResp
  /\ UNCHANGED <<oktaStore, concVars, poolVars, leaseVars>>

\* The dispatcher hands a write request to pathConfigWrite.
OktaDispatchWrite(op, d) ==
  /\ oktaReq = NoReq
  /\ op \in WriteOps(oktaStore)
  /\ oktaReq' = [kind |-> "write", op |-> op, d |-> d]
  /\ oktaResp' = NoResp
  /\ UNCHANGED <<oktaStore, concVars, poolVars, leaseVars>>

OktaRead(readFails) ==
  /\ oktaReq.kind = "read"
  /\ oktaResp' = PathConfigRead(oktaStore, readFails)
  /\ oktaReq' = NoReq
  /\ UNCHANGED <<oktaStore, concVars, poolVars, leaseVars>>

OktaWrite(readFails, encFails, putFails) ==
  /\ oktaReq.kind = "write"
  /\ LET r == PathConfigWrite(oktaStore, oktaReq.op, oktaReq.d,
                              readFails, encFails, putFails)
     IN /\ oktaStore' = r.store
        /\ oktaResp' = r.resp
  /\ oktaReq' = NoReq
  /\ UNCHANGED <<concVars, poolVars, leaseVars>>

\* The backend starts on storage that holds no config, or one that does
\* not decode.
OktaInit ==
  /\ PoolStart /\ LeaseStart
  /\ oktaStore \in {NoCfg, CorruptCfg}
  /\ oktaReq = NoReq
  /\ oktaResp = NoResp
  /\ wpc = [p \in Procs |-> "idle"]
  /\ wreq = [p \in Procs |-> NoReq]
  /\ wcfg = [p \in Procs |-> NilRead]
  /\ wres = [p \in Procs |-> "none"]
  /\ overlapW = FALSE

OktaNext ==
  \/ OktaDispatchRead
  \/ \E op \in {"create", "update"}, d \in FieldData : OktaDispatchWrite(op, d)
  \/ \E readFails \in BOOLEAN : OktaRead(readFails)
  \/ \E readFails \in BOOLEAN, encFails \in BOOLEAN, putFails \in BOOLEAN :
       OktaWrite(readFails, encFails, putFails)

OktaSpec == OktaInit /\ [][OktaNext]_vars

\* ------------------------------------------------- okta, concurrent writes
\* The requests two clients send at the same time: each carries
\* organization, max_ttl, both or neither.
ConcFieldData ==
  {[NoFields EXCEPT !.organization = o, !.max_ttl = m] :
     o \in {Unsupplied(""), Supplied("orgA")},
     m \in {Unsupplied(0), Supplied(2)}}

\* A client's write request arrives; the dispatcher is about to run the
\* existence check.
WRequest(p, d) ==
  /\ wpc[p] = "idle"
  /\ wpc' = [wpc EXCEPT ![p] = "check"]
  /\ wreq' = [wreq EXCEPT ![p] = [kind |-> "write", op |-> "none", d |-> d]]
  /\ wres' = [wres EXCEPT ![p] = "none"]
  /\ overlapW' = (\E q \in Procs \ {p} : wpc[q] # "idle")
  /\ UNCHANGED <<oktaStore, oktaReq, oktaResp, wcfg, poolVars, leaseVars>>

\* pathConfigExistenceCheck runs; the dispatcher labels the request Update
\* if it returned true, Create if false, and fails it on an error.
WCheck(p, readFails) ==
  /\ wpc[p] = "check"
  /\ LET e == ExistenceCheck(Config(oktaStore, readFails))
     IN IF e.err # NoErr
          THEN /\ wpc' = [wpc EXCEPT ![p] = "idle"]
               /\ wres' = [wres EXCEPT ![p] = "error"]
               /\ wreq' = wreq
          ELSE /\ wpc' = [wpc EXCEPT ![p] = "read"]
               /\ wreq' = [wreq EXCEPT ![p].op =
                             IF e.exists THEN "update" ELSE "create"]
               /\ wres' = wres
  /\ UNCHANGED <<oktaStore, oktaReq, oktaResp, wcfg, overlapW, poolVars, leaseVars>>

\* pathConfigWrite, lines 98-101: cfg, err := b.Config(req.Storage).
WRead(p, readFails) ==
  /\ wpc[p] = "read"
  /\ LET c == Config(oktaStore, readFails)
     IN IF c.err # NoErr
          THEN /\ wpc' = [wpc EXCEPT ![p] = "idle"]
               /\ wres' = [wres EXCEPT ![p] = "error"]
               /\ wcfg' = wcfg
          ELSE /\ wpc' = [wpc EXCEPT ![p] = "put"]
               /\ wcfg' = [wcfg EXCEPT ![p] = c]
               /\ wres' = wres
  /\ UNCHANGED <<oktaStore, oktaReq, oktaResp, wreq, overlapW, poolVars, leaseVars>>

\* pathConfigWrite, lines 103-159: the merge into the local cfg and the Put.
WPut(p, encFails, putFails) ==
  /\ wpc[p] = "put"
  /\ LET r == WriteTail(oktaStore, wcfg[p], wreq[p].op, wreq[p].d,
                        encFails, putFails)
     IN /\ oktaStore' = r.store
        /\ wres' = [wres EXCEPT ![p] =
                      IF r.resp.err = NoErr /\ r.resp.errResp = ""
                        THEN "ok" ELSE "error"]
  /\ wpc' = [wpc EXCEPT ![p] = "idle"]
  /\ wcfg' = [wcfg EXCEPT ![p] = NilRead]
  /\ UNCHANGED <<oktaReq, oktaResp, wreq, overlapW, poolVars, leaseVars>>

OktaConcNext ==
  \/ \E p \in Procs, d \in ConcFieldData : WRequest(p, d)
  \/ \E p \in Procs, readFails \in BOOLEAN : WCheck(p, readFails)
  \/ \E p \in Procs, readFails \in BOOLEAN : WRead(p, readFails)
  \/ \E p \in Procs, encFails \in BOOLEAN, putFails \in BOOLEAN :
       WPut(p, encFails, putFails)

OktaConcSpec == Init /\ [][OktaConcNext]_vars

\* ------------------------------------------------------------- claims

\* C1: whenever DBConnection returns without an error, the handle it returns
\* is a live, non-nil handle.
C1_AcquireReturnsLiveHandle ==
  \A p \in Procs : Acquired(p) => result[p].handle # Nil

\* C2: concurrent DBConnection calls on the same configured, never-opened name
\* make exactly one Connect call, and the pool ends with one handle for the
\* name. Stated of the state in which every caller has made one call, the
\* calls overlapped, and all have returned successfully for the same name.
C2_OneOpenForConcurrentAcquires ==
  \A n \in Names :
    ( /\ overlapped
      /\ calls = Cardinality(Procs)
      /\ ~wasReset[n]
      /\ \A p \in Procs : Acquired(p) /\ arg[p] = n )
    => (opens[n] = 1 /\ Lookup(dbs, n) # Nil)

\* C3: once DBConnection(name) has succeeded and no ResetDB(name) has run
\* since, a further DBConnection(name) neither decodes the configuration
\* again nor opens a connection: the counters of the name do not move.
C3_NoDecodeNoOpenWhenHandleExists ==
  [][\A p \in Procs :
       (pc[p] \in {"db_check", "db_connect"} /\ lastOp[arg[p]] = "acquired")
       => (decodes' = decodes /\ opens' = opens)]_vars

\* C4: when a DBConnection(name) has succeeded after a ResetDB(name), the
\* configuration was read again, a connection was opened, and the pool holds
\* a non-nil handle for the name.
C4_AcquireAfterResetReopens ==
  \A n \in Names :
    (wasReset[n] /\ lastOp[n] = "acquired")
    => (gets[n] >= 1 /\ opens[n] >= 1 /\ Lookup(dbs, n) # Nil)

\* C5: ResetDB(name) closes the handle of the name exactly when the map holds
\* one and leaves no handle for the name; a ResetDB(name) that follows a
\* ResetDB(name) with no DBConnection(name) between them leaves the pool as
\* it was and issues no Close.
C5_ResetClosesAndIsIdempotent ==
  [][\A p \in Procs :
       (pc[p] = "rs_body" /\ pc'[p] = "idle")
       => /\ Lookup(dbs', arg[p]) = Nil
          /\ closeCalls' = [closeCalls EXCEPT ![arg[p]] =
               @ + (IF Lookup(dbs, arg[p]) # Nil THEN 1 ELSE 0)]
          /\ (lastOp[arg[p]] = "reset" => (dbs' = dbs /\ closeCalls' = closeCalls))
    ]_vars

\* C5's case: two ResetDB calls of one name, one after the other, and nothing
\* else.
C5_Witness ==
  \E n \in Names :
    /\ calls = 2
    /\ lastOp[n] = "reset"
    /\ \A p \in Procs : pc[p] = "idle" /\ result[p].op = "ResetDB" /\ arg[p] = n

\* C6: when Connect fails inside DBConnection, the call returns an error.
C6_OpenFailureIsReported ==
  \A p \in Procs :
    (result[p].op = "DBConnection" /\ result[p].connErr # NoErr)
    => result[p].err # NoErr

\* C7: DBConnection(name) with no entry at dbs/<name> returns the
\* not-configured error, and with a failed storage read returns that error;
\* either way it returns no handle, makes no Connect call, does not decode,
\* and leaves the pool map and the storage as they were. The storage read
\* itself changes neither.
C7_NotConfiguredFailsCleanly ==
  [][\A p \in Procs :
       /\ (pc[p] = "db_get" /\ pc'[p] # "db_get")
          => (storage' = storage /\ dbs' = dbs /\ opens' = opens)
       /\ (pc[p] = "db_check" /\ pc'[p] # "db_check"
             /\ (err[p] # NoErr \/ entry[p] = NoEntry))
          => /\ pc'[p] = "idle"
             /\ result'[p].op = "DBConnection"
             /\ result'[p].handle = Nil
             /\ result'[p].err =
                  (IF err[p] # NoErr THEN err[p] ELSE ErrNotConfigured)
             /\ storage' = storage /\ dbs' = dbs
             /\ opens' = opens /\ decodes' = decodes
    ]_vars

\* C7's case: one caller was refused for a missing entry, another for a
\* failed read.
C7_Witness ==
  /\ \E p \in Procs : pc[p] = "idle" /\ result[p].err = ErrNotConfigured
  /\ \E p \in Procs : pc[p] = "idle" /\ result[p].err = ErrStorage

\* C8: DBConnection(name) on a stored configuration of an unrecognized type
\* returns the not-recognized error, and on one of a recognized type whose
\* payload does not unmarshal returns the unmarshal error; either way no
\* handle is returned, no Connect call is made and the pool map is unchanged.
C8_BadConfigFailsCleanly ==
  [][\A p \in Procs :
       (pc[p] = "db_check" /\ pc'[p] # "db_check" /\ err[p] = NoErr
          /\ entry[p].present /\ entry[p].json_ok
          /\ (entry[p].database_type \notin RecognizedTypes
                \/ entry[p].config_info = "junk"))
       => /\ pc'[p] = "idle"
          /\ result'[p].op = "DBConnection"
          /\ result'[p].handle = Nil
          /\ result'[p].err =
               (IF entry[p].database_type \notin RecognizedTypes
                  THEN ErrNotRecognized ELSE ErrUnmarshal)
          /\ dbs' = dbs /\ opens' = opens
    ]_vars

\* C8's case: one caller was refused for an unrecognized type, another for a
\* payload that does not unmarshal.
C8_Witness ==
  /\ \E p \in Procs : pc[p] = "idle" /\ result[p].err = ErrNotRecognized
  /\ \E p \in Procs : pc[p] = "idle" /\ result[p].err = ErrUnmarshal

\* C9: at most one caller at a time is between Lock and Unlock of DBConnection
\* or ResetDB, whatever the names.
C9_MutualExclusion ==
  \A p, q \in Procs : (p # q /\ InCS(p)) => ~InCS(q)

\* C9's case: a caller is inside DBConnection or ResetDB while another waits
\* for the lock with a different name.
C9_Witness ==
  \E p, q \in Procs :
    /\ InCS(p)
    /\ pc[q] \in {"db_lock", "rs_lock"}
    /\ arg[p] # arg[q]

\* C11: a DBConnection invocation makes one storage read and at most one
\* Connect call and then returns; the lock is free whenever no caller is
\* between Lock and Unlock; and, under fair scheduling, every caller that is
\* inside or waiting in DBConnection or ResetDB eventually returns.
C11_NoRetryAndCallersComplete ==
  /\ [](\A p \in Procs :
         /\ result[p].reads <= 1 /\ result[p].attempts <= 1
         /\ (pc[p] = "idle" /\ result[p].op = "DBConnection")
              => result[p].reads = 1)
  /\ []((\A p \in Procs : ~InCS(p)) => ~lock)
  /\ \A p \in Procs : (pc[p] # "idle") ~> (pc[p] = "idle")

\* C11's case: a caller's DBConnection has returned an error, the lock is
\* free again, and another caller is waiting for it.
C11_Witness ==
  \E p, q \in Procs :
    /\ pc[p] = "idle" /\ result[p].op = "DBConnection" /\ result[p].err # NoErr
    /\ pc[q] \in {"db_lock", "rs_lock"}
    /\ ~lock

\* C18: a step of DBConnection(name) or ResetDB(name) leaves the pool entry
\* of every other name as it was (same key, same handle, no Close call on
\* it) and does not write storage.
C18_OnlyTheNamedEntryIsTouched ==
  [][\A p \in Procs :
       pc'[p] # pc[p] =>
         LET name == IF pc[p] = "idle" THEN arg'[p] ELSE arg[p]
         IN /\ storage' = storage
            /\ \A n \in Names \ {name} :
                 /\ (n \in DOMAIN dbs') = (n \in DOMAIN dbs)
                 /\ Lookup(dbs', n) = Lookup(dbs, n)
                 /\ closeCalls'[n] = closeCalls[n]]_vars

\* C18's case: a ResetDB has returned while the pool holds an entry for
\* another name as well, and storage holds a written connection config.
C18_Witness ==
  \E p \in Procs :
    /\ pc[p] = "idle" /\ result[p].op = "ResetDB"
    /\ DOMAIN dbs = Names
    /\ storage[arg[p]] # NoEntry

\* C12: a Lease call returns (nil, nil) exactly when its read succeeds and
\* finds no entry at config/lease; for a stored entry that decodes it returns
\* that configuration, a zero-valued one included, as a non-nil pointer; a
\* read or decode failure is returned as an error with a nil configuration;
\* and the call leaves storage as it was.
C12_LeaseReadsWhatIsStored ==
  [][leaseResult' # leaseResult =>
       LET r == leaseResult'
           unset == r.config = NilLease /\ r.err = NoErr
       IN /\ leaseStore' = leaseStore
          /\ unset => ~leaseStore.present
          /\ ~leaseStore.present => (unset \/ r.err = ErrStorage)
          /\ (leaseStore.present /\ leaseStore.json_ok) =>
               \/ r.err = ErrStorage
               \/ /\ r.err = NoErr
                  /\ r.config = [set |-> TRUE,
                                 default_ttl |-> leaseStore.default_ttl,
                                 max_ttl |-> leaseStore.max_ttl]
          /\ (leaseStore.present /\ ~leaseStore.json_ok) => r.err # NoErr
          /\ r.err # NoErr => r.config = NilLease]_vars

\* C12's case: Lease has returned a stored configuration whose two
\* durations are zero, as a non-nil pointer.
C12_Witness ==
  /\ leaseResult.op = "Lease"
  /\ leaseResult.err = NoErr
  /\ leaseResult.config = [set |-> TRUE, default_ttl |-> 0, max_ttl |-> 0]
  /\ leaseStore = LeaseEntry(0, 0)

\* C13: a write of config/lease with default_ttl > max_ttl > 0 fails with
\* InvalidLeaseConfig and leaves storage as it was, and every configuration
\* Lease returns has default_ttl <= max_ttl whenever its max_ttl > 0.
C13_LeaseOrderingIsKept ==
  /\ [](leaseResult.config.set =>
          (leaseResult.config.max_ttl > 0 =>
             leaseResult.config.default_ttl <= leaseResult.config.max_ttl))
  /\ [][(leasePut' # leasePut /\ leasePut'.max_ttl > 0
            /\ leasePut'.default_ttl > leasePut'.max_ttl) =>
          (leasePut'.err = ErrInvalidLeaseConfig /\ leaseStore' = leaseStore)]_vars

\* C13's case: a write with default_ttl 100 and max_ttl 50 was refused while
\* a valid bounded configuration is stored, and Lease has returned that one.
C13_Witness ==
  /\ leasePut.op = "put"
  /\ leasePut.default_ttl = 100 /\ leasePut.max_ttl = 50
  /\ leasePut.err = ErrInvalidLeaseConfig
  /\ leaseStore = LeaseEntry(50, 100)
  /\ leaseResult.config = [set |-> TRUE, default_ttl |-> 50, max_ttl |-> 100]

\* A pathConfigWrite step and how it ended.
WriteReturns == oktaReq.kind = "write" /\ oktaReq' = NoReq
WriteSucceeded == oktaResp'.err = NoErr /\ oktaResp'.errResp = ""

\* C14: after a successful pathConfigWrite each of organization, token, ttl
\* and max_ttl is stored with the supplied value if the request carries the
\* field, else with the value stored before on an Update and with the schema
\* default on a Create.
C14_WriteMergesPerField ==
  [][(WriteReturns /\ WriteSucceeded) =>
       LET d == oktaReq.d
           update == oktaReq.op = "update"
           old == oktaStore.cfg
           new == oktaStore'.cfg
       IN /\ oktaStore'.present /\ oktaStore'.json_ok
          /\ new.Org = IF d.organization.ok THEN d.organization.v
                        ELSE IF update THEN old.Org ELSE ""
          /\ new.Token = IF d.token.ok THEN d.token.v
                          ELSE IF update THEN old.Token ELSE ""
          /\ new.TTL = IF d.ttl.ok THEN d.ttl.v * Second
                        ELSE IF update THEN old.TTL ELSE 0
          /\ new.MaxTTL = IF d.max_ttl.ok THEN d.max_ttl.v * Second
                           ELSE IF update THEN old.MaxTTL ELSE 0]_vars

\* C14's case: an Update has succeeded and the stored config holds values
\* that differ from the schema defaults in all four fields.
C14_Witness ==
  /\ oktaResp.kind = "write" /\ oktaResp.op = "update"
  /\ oktaResp.err = NoErr /\ oktaResp.errResp = ""
  /\ oktaStore.present
  /\ oktaStore.cfg.Org = "orgB" /\ oktaStore.cfg.Token = "t1"
  /\ oktaStore.cfg.TTL = Second /\ oktaStore.cfg.MaxTTL = 2 * Second

\* C16: a pathConfigWrite that fails leaves the stored config as it was, and
\* a request whose base_url does not parse fails.
C16_FailedWriteChangesNothing ==
  [][WriteReturns =>
       /\ ~WriteSucceeded => oktaStore' = oktaStore
       /\ (oktaReq.d.base_url.ok /\ oktaReq.d.base_url.v = BadURL) =>
            /\ ~WriteSucceeded
            /\ oktaResp'.err = NoErr => oktaResp'.errResp = ErrParseBaseURL]_vars

\* C16's case: a write was answered with the base_url error response while
\* a config with another base_url is stored.
C16_Witness ==
  /\ oktaResp.kind = "write"
  /\ oktaResp.errResp = ErrParseBaseURL
  /\ oktaStore.present /\ oktaStore.cfg.BaseURL = GoodURL

\* C17: pathConfigRead leaves storage as it was; with no config stored it
\* returns a nil response and no error; otherwise its response data holds
\* organization, base_url, ttl and max_ttl of the stored config and nothing
\* else, and is the same for whatever token is stored.
C17_ReadHidesToken ==
  [][(oktaReq.kind = "read" /\ oktaReq' = NoReq) =>
       /\ oktaStore' = oktaStore
       /\ oktaResp'.err = NoErr =>
            IF ~oktaStore.present
              THEN oktaResp'.nil
              ELSE /\ ~oktaResp'.nil
                   /\ DOMAIN oktaResp'.data =
                        {"organization", "base_url", "ttl", "max_ttl"}
                   /\ oktaResp'.data.organization = oktaStore.cfg.Org
                   /\ oktaResp'.data.base_url = oktaStore.cfg.BaseURL
                   /\ oktaResp'.data.ttl = oktaStore.cfg.TTL
                   /\ oktaResp'.data.max_ttl = oktaStore.cfg.MaxTTL
                   /\ \A t \in Tokens :
                        PathConfigRead(
                          [oktaStore EXCEPT !.cfg.Token = t], FALSE) = oktaResp']_vars

\* C17's case: a read has answered with the data of a stored config that
\* holds a token.
C17_Witness ==
  /\ oktaResp.kind = "read" /\ ~oktaResp.nil
  /\ oktaStore.present /\ oktaStore.cfg.Token = "t1"
  /\ oktaResp.data.organization = "orgA"

\* C15: a pathConfigWrite that found no stored config is handling a Create,
\* in every interleaving of concurrent writes; and a stored config does not
\* go away.
C15_NilConfigOnlyOnCreate ==
  /\ [](\A p \in Procs :
         (wpc[p] = "put" /\ wcfg[p].nil) => wreq[p].op = "create")
  /\ [][oktaStore.present => oktaStore'.present]_vars

\* C15's case: a write has found no config and is a Create, while the other
\* client's write is in flight too.
C15_Witness ==
  \E p \in Procs, q \in Procs :
    /\ p # q
    /\ wpc[p] = "put" /\ wcfg[p].nil /\ wreq[p].op = "create"
    /\ wpc[q] \in {"read", "put"}

\* The stored value of a request field.
Stored(cfg, k) ==
  IF k = "organization" THEN [s |-> cfg.Org, n |-> 0]
  ELSE IF k = "token" THEN [s |-> cfg.Token, n |-> 0]
  ELSE IF k = "base_url" THEN [s |-> cfg.BaseURL, n |-> 0]
  ELSE IF k = "ttl" THEN [s |-> "", n |-> cfg.TTL]
  ELSE [s |-> "", n |-> cfg.MaxTTL]

\* What a supplied request field is stored as.
SuppliedAs(d, k) ==
  IF k \in {"ttl", "max_ttl"} THEN [s |-> "", n |-> d[k].v * Second]
  ELSE [s |-> d[k].v, n |-> 0]

\* C19: when two Updates that were in flight together, each carrying at
\* least one field and no field in common, have both succeeded, the stored
\* config holds every value either of them supplied.
C19_NoLostUpdate ==
  ( /\ overlapW
    /\ \A p \in Procs :
         /\ wpc[p] = "idle" /\ wres[p] = "ok" /\ wreq[p].op = "update"
         /\ \E k \in Fields : wreq[p].d[k].ok
    /\ \A p \in Procs, q \in Procs, k \in Fields :
         p # q => ~(wreq[p].d[k].ok /\ wreq[q].d[k].ok) )
  => \A p \in Procs, k \in Fields :
       wreq[p].d[k].ok => Stored(oktaStore.cfg, k) = SuppliedAs(wreq[p].d, k)

====
